---- MODULE Spec2Model ----
(***************************************************************************)
(* A model of two utilities of the repository:                             *)
(*   - packages/@aws-cdk/aws-ec2/lib/private/ebs-util.ts, the block device *)
(*     mapping synthesizer (instanceBlockDeviceMappings,                   *)
(*     launchTemplateBlockDeviceMappings, synthesizeBlockDeviceMappings);  *)
(*   - the schedule target input (ScheduleTargetInput, ContextAttribute).  *)
(*                                                                         *)
(* An optional JavaScript value is a set: {} is undefined (the property is *)
(* absent), {v} is the value v.  A JavaScript string whose characters      *)
(* matter is a sequence of one-character strings.                          *)
(***************************************************************************)
EXTENDS Integers, Sequences, FiniteSets, TLC

VARIABLES
    pc,              \* "idle" | "returned" | "threw": where the synthesizer call is
    entryPoint,      \* "none" | "instance" | "launchTemplate"
    blockDevices,    \* the blockDevices argument of the call
    i,               \* the number of elements whose callback has completed
    mappings,        \* the value returned by the call: {} (nothing) or {<<records>>}
    warnings,        \* the warnings annotated on the construct, oldest first
    warningsAtCall,  \* the warnings the construct held when the call was made
    attrName,        \* the name given to ContextAttribute.fromName: {} or {name}
    attr,            \* the string ContextAttribute.fromName returned
    created,         \* "none" | "fromText" | "fromObject"
    input,           \* FieldAwareEventInput.input
    toJsonString,    \* FieldAwareEventInput.toJsonString
    embedded,        \* whether input was built with attr inside it
    bound            \* the string bind returned: {} or {string}

ebsVars == <<pc, entryPoint, blockDevices, i, mappings, warnings, warningsAtCall>>
inputVars == <<attrName, attr, created, input, toJsonString, embedded, bound>>
vars == <<ebsVars, inputVars>>

-----------------------------------------------------------------------------
(* Bounds and input domains *)

MaxDevices == 2
MaxNameLen == 2

None == {}
Some(v) == {v}
Get(opt) == CHOOSE v \in opt : TRUE

IO1 == "io1"
GP2 == "gp2"
VolumeTypes == {IO1, GP2}
IopsValues == {None, Some(0), Some(100)}
KmsKeys == {None, Some([keyArn |-> "arn:aws:kms:key/1"])}
DeleteOnTerminationValues == {None, Some(TRUE)}
DeviceNames == {"/dev/sda1", "/dev/sdb"}
MappingEnabledValues == {None, Some(TRUE), Some(FALSE)}

EbsSpecs ==
    [iops : IopsValues, volumeType : VolumeTypes, kmsKey : KmsKeys,
     deleteOnTermination : DeleteOnTerminationValues]

Volumes ==
    {[virtualName |-> Some("ephemeral0"), ebsDevice |-> None]}
    \cup {[virtualName |-> None, ebsDevice |-> Some(e)] : e \in EbsSpecs}

\* One volume of each kind, to combine with every deviceName and mappingEnabled:
\* an ephemeral volume, an EBS volume that passes and one that fails the check.
BasicVolumes ==
    {v \in Volumes :
        \/ v.ebsDevice = None
        \/ /\ Get(v.ebsDevice).iops = None
           /\ Get(v.ebsDevice).kmsKey = None
           /\ Get(v.ebsDevice).deleteOnTermination = None}

\* Every volume under one deviceName and mappingEnabled, and every deviceName
\* and mappingEnabled with the basic volumes: the callback reads the volume,
\* the deviceName and mappingEnabled independently of each other.
BlockDevices ==
    {d \in [deviceName : DeviceNames, volume : Volumes,
            mappingEnabled : MappingEnabledValues] :
        \/ d.volume \in BasicVolumes
        \/ (d.deviceName = "/dev/sda1" /\ d.mappingEnabled = None)}

BlockDeviceLists == UNION {[1..n -> BlockDevices] : n \in 0..MaxDevices}

PriorWarnings == {<<>>, <<"earlier warning">>}

-----------------------------------------------------------------------------
(* ebs-util.ts *)

IopsWarning == "iops will be ignored without volumeType: EbsDeviceVolumeType.IO1"

\* {} of instanceBlockDeviceMappings and '' of launchTemplateBlockDeviceMappings
EmptyObject == [type |-> "object", value |-> <<>>]
EmptyString == [type |-> "string", value |-> <<>>]

\* !iops: undefined and 0 are both falsy
NotIops(iops) == iops = None \/ iops = Some(0)

\* CheckIops with the throw left out
CheckIopsNeverThrows(ebs) ==
    IF NotIops(ebs.iops) THEN "ok"
    ELSE IF ebs.volumeType # IO1 THEN "warn" ELSE "ok"

\* the if / else if on iops and volumeType: "throw", "warn" or "ok"
CheckIops(ebs) ==
    IF NotIops(ebs.iops)
    THEN IF ebs.volumeType = IO1 THEN "throw" ELSE "ok"
    ELSE IF ebs.volumeType # IO1 THEN "warn" ELSE "ok"

\* const { iops, volumeType, kmsKey, ...rest } = ebs
Rest(ebs) ==
    [f \in DOMAIN ebs \ {"iops", "volumeType", "kmsKey"} |-> ebs[f]]

\* kmsKey?.keyArn
KeyArnOf(kmsKey) == IF kmsKey = None THEN None ELSE Some(Get(kmsKey).keyArn)

\* FinalEbs spreading ebs instead of rest, and kmsKeyId given the key itself
FinalEbsKeepsKey(ebs) ==
    [iops |-> ebs.iops, volumeType |-> ebs.volumeType,
     kmsKeyId |-> ebs.kmsKey] @@ ebs

\* finalEbs = { ...rest, iops, volumeType, kmsKeyId: kmsKey?.keyArn }
FinalEbs(ebs) ==
    [iops |-> ebs.iops, volumeType |-> ebs.volumeType,
     kmsKeyId |-> KeyArnOf(ebs.kmsKey)] @@ Rest(ebs)

\* NoDevice testing !mappingEnabled instead of mappingEnabled === false
NoDeviceWhenFalsy(mappingEnabled, noDeviceValue) ==
    IF mappingEnabled # Some(TRUE) THEN Some(noDeviceValue) ELSE None

\* mappingEnabled === false ? noDeviceValue : undefined
NoDevice(mappingEnabled, noDeviceValue) ==
    IF mappingEnabled = Some(FALSE) THEN Some(noDeviceValue) ELSE None

\* EbsOutcome whose else branch sets finalEbs to {} instead of undefined
EbsOutcomeEmptyObject(volume) ==
    IF volume.ebsDevice # None
    THEN LET ebs == Get(volume.ebsDevice)
         IN  [check |-> CheckIops(ebs), finalEbs |-> Some(FinalEbs(ebs))]
    ELSE [check |-> "ok", finalEbs |-> Some(<<>>)]

\* the outcome of the if (ebs) statement for one volume
EbsOutcome(volume) ==
    IF volume.ebsDevice # None
    THEN LET ebs == Get(volume.ebsDevice)
         IN  [check |-> CheckIops(ebs), finalEbs |-> Some(FinalEbs(ebs))]
    ELSE [check |-> "ok", finalEbs |-> None]

\* the callback given to blockDevices.map, for one element
MapCallback(blockDevice, noDeviceValue) ==
    LET o == EbsOutcome(blockDevice.volume)
    IN  [threw  |-> o.check = "throw",
         warned |-> o.check = "warn",
         value  |-> [deviceName  |-> blockDevice.deviceName,
                     ebs         |-> o.finalEbs,
                     virtualName |-> blockDevice.volume.virtualName,
                     noDevice    |-> NoDevice(blockDevice.mappingEnabled, noDeviceValue)]]

\* Collect putting the value first (unshift instead of push)
CollectInFront(out, value) == <<value>> \o out

\* what Array.prototype.map does with the callback's value
Collect(out, value) == Append(out, value)

\* blockDevices.map from element k on: the callback runs on the elements in
\* order; a throw ends the call with no value and leaves the warnings added
\* so far in place.
RECURSIVE MapFrom(_, _, _, _, _)
MapFrom(devices, noDeviceValue, k, out, warns) ==
    IF k > Len(devices)
    THEN [threw |-> FALSE, done |-> Len(devices), value |-> Some(out), warnings |-> warns]
    ELSE LET r == MapCallback(devices[k], noDeviceValue)
         IN  IF r.threw
             THEN [threw |-> TRUE, done |-> k - 1, value |-> None, warnings |-> warns]
             ELSE MapFrom(devices, noDeviceValue, k + 1, Collect(out, r.value),
                          IF r.warned THEN Append(warns, IopsWarning) ELSE warns)

synthesizeBlockDeviceMappings(construct, devices, noDeviceValue) ==
    MapFrom(devices, noDeviceValue, 1, <<>>, construct)

Call(name, devices, noDeviceValue) ==
    /\ LET r == synthesizeBlockDeviceMappings(warnings, devices, noDeviceValue)
       IN  /\ pc' = IF r.threw THEN "threw" ELSE "returned"
           /\ i' = r.done
           /\ mappings' = r.value
           /\ warnings' = r.warnings
    /\ entryPoint' = name
    /\ blockDevices' = devices
    /\ warningsAtCall' = warnings

instanceBlockDeviceMappings ==
    /\ pc = "idle"
    /\ \E devices \in BlockDeviceLists : Call("instance", devices, EmptyObject)

launchTemplateBlockDeviceMappings ==
    /\ pc = "idle"
    /\ \E devices \in BlockDeviceLists : Call("launchTemplate", devices, EmptyString)

NoCall ==
    /\ pc = "idle"
    /\ entryPoint = "none"
    /\ blockDevices = <<>>
    /\ i = 0
    /\ mappings = None
    /\ warningsAtCall = <<>>

-----------------------------------------------------------------------------
(* Schedule target input: ScheduleTargetInput, ContextAttribute *)

Quote == "\""
Backslash == "\\"
\* the string form of a deferred value (a token), one element of a string
TokenMarker == "${Token[TOKEN.1]}"

NameChars == {"x", "-", Quote, Backslash}
Names == UNION {[1..n -> NameChars] : n \in 0..MaxNameLen}

\* JavaScript values: a string, a number, an object of one property
Str(chars) == [type |-> "string", chars |-> chars, n |-> 0, props |-> <<>>]
Num(n) == [type |-> "number", chars |-> <<>>, n |-> n, props |-> <<>>]
Obj(key, value) ==
    [type |-> "object", chars |-> <<>>, n |-> 0, props |-> <<[key |-> key, value |-> value]>>]

Hello == <<"h", "e", "l", "l", "o">>
TextsBefore == {<<>>, Hello, <<Quote>>, <<TokenMarker, " ">>}
TextsAfter == {<<>>, <<"!">>}

\* toString with the literal xxx of the documentation instead of this.name
toStringLiteralName(name) ==
    <<"<", "a", "w", "s", ".", "s", "c", "h", "e", "d", "u", "l", "e", "r", ".">>
        \o <<"x", "x", "x">> \o <<">">>

\* `<aws.scheduler.${this.name}>`
toString(name) ==
    <<"<", "a", "w", "s", ".", "s", "c", "h", "e", "d", "u", "l", "e", "r", ".">>
        \o name \o <<">">>

\* new ContextAttribute(name).toString()
fromName(name) == toString(name)

\* new FieldAwareEventInput(text, false)
fromText(text) == [input |-> Str(text), toJsonString |-> FALSE]

\* new FieldAwareEventInput(obj, true)
fromObject(obj) == [input |-> obj, toJsonString |-> TRUE]

\* Token.asString(t): the token's string form
TokenAsString(t) == t

\* Replacer.resolveToken
resolveToken(t) == TokenAsString(t)

\* Tokenization.resolve with the Replacer on a string: every token in it is
\* replaced by what resolveToken returns, and the parts are concatenated
ResolveString(chars) ==
    [k \in DOMAIN chars |->
        IF chars[k] = TokenMarker THEN resolveToken(chars[k]) ELSE chars[k]]

\* Tokenization.resolve on a value: strings are resolved, objects property by
\* property, numbers are left alone
RECURSIVE TokenizationResolve(_)
TokenizationResolve(value) ==
    CASE value.type = "string" -> Str(ResolveString(value.chars))
      [] value.type = "number" -> value
      [] value.type = "object" ->
            [value EXCEPT !.props =
                [k \in DOMAIN value.props |->
                    [key |-> value.props[k].key,
                     value |-> TokenizationResolve(value.props[k].value)]]]

\* the JSON form of one character inside a string
JsonChar(c) ==
    IF c = Quote THEN <<Backslash, Quote>>
    ELSE IF c = Backslash THEN <<Backslash, Backslash>>
    ELSE <<c>>

RECURSIVE JsonChars(_)
JsonChars(chars) ==
    IF chars = <<>> THEN <<>> ELSE JsonChar(Head(chars)) \o JsonChars(Tail(chars))

JsonQuoted(chars) == <<Quote>> \o JsonChars(chars) \o <<Quote>>

Digit(n) == <<"0", "1", "2", "3", "4", "5", "6", "7", "8", "9">>[n + 1]

\* stack.toJsonString: the JSON text of a resolved value
RECURSIVE StackToJsonString(_)
RECURSIVE JsonProps(_)
JsonProps(props) ==
    IF props = <<>> THEN <<>>
    ELSE JsonQuoted(Head(props).key) \o <<":">> \o StackToJsonString(Head(props).value)
         \o (IF Tail(props) = <<>> THEN <<>> ELSE <<",">> \o JsonProps(Tail(props)))

StackToJsonString(value) ==
    CASE value.type = "string" -> JsonQuoted(value.chars)
      [] value.type = "number" -> <<Digit(value.n)>>
      [] value.type = "object" -> <<"{">> \o JsonProps(value.props) \o <<"}">>

\* the string a resolved value is when it is not JSON-encoded
AsString(value) == value.chars

\* bind returning the resolved value whatever toJsonString is
bindNeverEncodes(in, json) == AsString(TokenizationResolve(in))

\* FieldAwareEventInput.bind
bind(in, json) ==
    LET inputString == TokenizationResolve(in)
    IN  IF json THEN StackToJsonString(inputString) ELSE AsString(inputString)

NoInput ==
    /\ attrName = None
    /\ attr = <<>>
    /\ created = "none"
    /\ input = Str(<<>>)
    /\ toJsonString = FALSE
    /\ embedded = FALSE
    /\ bound = None

\* the caller asks ContextAttribute.fromName for a placeholder
CallFromName ==
    /\ attrName = None
    /\ \E name \in Names :
        /\ attrName' = Some(name)
        /\ attr' = fromName(name)
    /\ UNCHANGED <<created, input, toJsonString, embedded, bound>>

\* the texts a caller may build: plain, or with the placeholder inside
TextsWith(embed) ==
    {before \o (IF embed THEN attr ELSE <<>>) \o after :
        before \in TextsBefore, after \in TextsAfter}

Construct(made, by, embed) ==
    /\ created' = by
    /\ input' = made.input
    /\ toJsonString' = made.toJsonString
    /\ embedded' = embed
    /\ UNCHANGED <<attrName, attr, bound>>

\* ScheduleTargetInput.fromText(text)
CreateFromText ==
    /\ created = "none"
    /\ \E embed \in {FALSE, attrName # None} :
        \E text \in TextsWith(embed) :
            Construct(fromText(text), "fromText", embed)

\* ScheduleTargetInput.fromObject(obj): {a: 1}, a string, or {detail: string}
CreateFromObject ==
    /\ created = "none"
    /\ \E embed \in {FALSE, attrName # None} :
        \E obj \in {Obj(<<"a">>, Num(1))}
                   \cup {Str(text) : text \in TextsWith(embed)}
                   \cup {Obj(<<"d">>, Str(text)) : text \in TextsWith(embed)} :
            Construct(fromObject(obj), "fromObject",
                      embed /\ obj # Obj(<<"a">>, Num(1)))

\* input.bind(schedule)
BindSchedule ==
    /\ created # "none"
    /\ bound = None
    /\ bound' = Some(bind(input, toJsonString))
    /\ UNCHANGED <<attrName, attr, created, input, toJsonString, embedded>>

Init ==
    /\ NoCall
    /\ warnings \in PriorWarnings
    /\ NoInput

Next ==
    \/ instanceBlockDeviceMappings /\ UNCHANGED inputVars
    \/ launchTemplateBlockDeviceMappings /\ UNCHANGED inputVars

Spec == Init /\ [][Next]_vars

InitInput ==
    /\ NoCall
    /\ warnings = <<>>
    /\ NoInput

NextInput ==
    \/ CallFromName /\ UNCHANGED ebsVars
    \/ CreateFromText /\ UNCHANGED ebsVars
    \/ CreateFromObject /\ UNCHANGED ebsVars
    \/ BindSchedule /\ UNCHANGED ebsVars

SpecInput == InitInput /\ [][NextInput]_vars

-----------------------------------------------------------------------------
(* Properties of the device mapping synthesizer *)

Called == pc # "idle"
Returned == pc = "returned"
Threw == pc = "threw"
Indices == 1..Len(blockDevices)
Records == Get(mappings)
HasEbs(d) == d.volume.ebsDevice # None
EbsOf(d) == Get(d.volume.ebsDevice)
Io1WithoutIops(d) == HasEbs(d) /\ EbsOf(d).volumeType = IO1 /\ EbsOf(d).iops = None
IopsWithoutIo1(d) == HasEbs(d) /\ EbsOf(d).volumeType # IO1 /\ EbsOf(d).iops # None
WarningsGained(n) == warningsAtCall \o [k \in 1..n |-> IopsWarning]
MarkerOf(name) ==
    IF name = "instance" THEN [type |-> "object", value |-> <<>>]
    ELSE [type |-> "string", value |-> <<>>]

\* C1: a call whose input holds an element with volumeType IO1 and no iops
\* fails and returns no mapping records, whatever precedes that element.
C1_Io1WithoutIopsThrows ==
    (Called /\ \E k \in Indices : Io1WithoutIops(blockDevices[k]))
        => (Threw /\ mappings = None)

C1_Witness ==
    /\ Threw
    /\ mappings = None
    /\ Len(blockDevices) = 2
    /\ i = 1
    /\ ~Io1WithoutIops(blockDevices[1])
    /\ Io1WithoutIops(blockDevices[2])

\* C2: the call fails only if some element has volumeType IO1 and no iops;
\* an iops of any numeric value, 0 included, never makes it fail.
C2_ThrowsOnlyForIo1WithoutIops ==
    Threw => \E k \in Indices : Io1WithoutIops(blockDevices[k])

\* C3: a successful call adds exactly one warning for each element that has
\* iops present (any number) with a volumeType other than IO1, none for the
\* others, and the element's ebs record keeps the iops given.
C3_OneWarningPerIopsWithoutIo1 ==
    Returned =>
        /\ warnings =
              WarningsGained(Cardinality({k \in Indices : IopsWithoutIo1(blockDevices[k])}))
        /\ \A k \in Indices :
              IopsWithoutIo1(blockDevices[k])
                  => Get(Records[k].ebs).iops = EbsOf(blockDevices[k]).iops

\* C4: noDevice is present exactly when mappingEnabled is false, and is then
\* the entry point's marker ({} for instance, '' for launch template).
C4_NoDeviceIffMappingDisabled ==
    Returned =>
        \A k \in Indices :
            /\ (Records[k].noDevice # None) <=> (blockDevices[k].mappingEnabled = Some(FALSE))
            /\ Records[k].noDevice # None
                  => Records[k].noDevice = Some(MarkerOf(entryPoint))

C4_Witness ==
    /\ Returned
    /\ entryPoint = "launchTemplate"
    /\ Len(blockDevices) = 2
    /\ blockDevices[1].mappingEnabled = Some(FALSE)
    /\ blockDevices[2].mappingEnabled = Some(TRUE)
    /\ Records[1].noDevice = Some([type |-> "string", value |-> <<>>])
    /\ Records[2].noDevice = None

\* C5: the ebs field of a record is present exactly when the volume had an
\* ebsDevice; a volume without ebsDevice neither fails the call nor adds a
\* warning.
C5_EbsIffEbsDevice ==
    /\ Returned =>
          \A k \in Indices : (Records[k].ebs # None) <=> HasEbs(blockDevices[k])
    /\ Threw => HasEbs(blockDevices[i + 1])
    /\ Called =>
          Len(warnings) - Len(warningsAtCall)
              <= Cardinality({k \in 1..i : HasEbs(blockDevices[k])})

C5_Witness ==
    /\ Returned
    /\ Len(blockDevices) = 2
    /\ ~HasEbs(blockDevices[1])
    /\ blockDevices[1].volume.virtualName = Some("ephemeral0")
    /\ HasEbs(blockDevices[2])
    /\ Records[1].ebs = None
    /\ Records[2].ebs # None
    /\ warnings = warningsAtCall

\* C6: the ebs record carries iops and volumeType as given, every other field
\* of ebsDevice but kmsKey unchanged, no kmsKey, and kmsKeyId equal to the
\* key's ARN, or absent when no key was given.
C6_EbsRecordFields ==
    Returned =>
        \A k \in Indices :
            HasEbs(blockDevices[k]) =>
                LET e == EbsOf(blockDevices[k])
                    o == Get(Records[k].ebs)
                IN  /\ DOMAIN o = (DOMAIN e \ {"kmsKey"}) \cup {"kmsKeyId"}
                    /\ o.iops = e.iops
                    /\ o.volumeType = e.volumeType
                    /\ o.deleteOnTermination = e.deleteOnTermination
                    /\ o.kmsKeyId = IF e.kmsKey = None THEN None
                                    ELSE Some(Get(e.kmsKey).keyArn)

C6_Witness ==
    /\ Returned
    /\ Len(blockDevices) = 2
    /\ HasEbs(blockDevices[1]) /\ HasEbs(blockDevices[2])
    /\ EbsOf(blockDevices[1]).kmsKey # None
    /\ EbsOf(blockDevices[1]).deleteOnTermination = Some(TRUE)
    /\ EbsOf(blockDevices[1]).iops = Some(0)
    /\ EbsOf(blockDevices[2]).kmsKey = None
    /\ Get(Records[1].ebs).kmsKeyId = Some("arn:aws:kms:key/1")
    /\ Get(Records[2].ebs).kmsKeyId = None

C10_WarningsKeptOnThrow ==
    Threw =>
        warnings =
            WarningsGained(Cardinality({k \in 1..i : IopsWithoutIo1(blockDevices[k])}))

-----------------------------------------------------------------------------
(* Properties of the schedule target input *)

Bound == bound # None
Contains(hay, needle) ==
    \E k \in 0..(Len(hay) - Len(needle)) :
        SubSeq(hay, k + 1, k + Len(needle)) = needle
Placeholder(name) ==
    <<"<", "a", "w", "s", ".", "s", "c", "h", "e", "d", "u", "l", "e", "r", ".">>
        \o name \o <<">">>
NeedsNoEscape(name) ==
    \A k \in DOMAIN name : name[k] \notin {Quote, Backslash}

\* C8: bind returns the resolved value as it is for an input made by
\* fromText (a text is returned as given), and its JSON text for an input
\* made by fromObject ({a: 1} gives {"a":1}); the value is JSON-encoded
\* exactly when the input was made by fromObject.
C8_EncodedIffFromObject ==
    Bound =>
        /\ created = "fromText" => Get(bound) = input.chars
        /\ created = "fromObject" =>
              /\ Get(bound) = StackToJsonString(TokenizationResolve(input))
              /\ input.type = "string" =>
                    /\ Len(Get(bound)) >= Len(input.chars) + 2
                    /\ Head(Get(bound)) = Quote
                    /\ Get(bound)[Len(Get(bound))] = Quote
              /\ input = Obj(<<"a">>, Num(1)) =>
                    Get(bound) = <<"{", Quote, "a", Quote, ":", "1", "}">>

C8_WitnessText ==
    /\ Bound
    /\ created = "fromText"
    /\ input.chars = Hello
    /\ Get(bound) = Hello

C8_Witness ==
    /\ Bound
    /\ created = "fromObject"
    /\ input = Obj(<<"a">>, Num(1))
    /\ Get(bound) = <<"{", Quote, "a", Quote, ":", "1", "}">>

\* C9 as stated: fromName(x) is <aws.scheduler.x>, and the string bind returns
\* for an input made with that placeholder inside holds it verbatim, for every
\* name x.
C9_PlaceholderVerbatim ==
    /\ attrName # None => attr = Placeholder(Get(attrName))
    /\ (Bound /\ embedded) => Contains(Get(bound), Placeholder(Get(attrName)))

\* C9 as amended: fromName(x) is <aws.scheduler.x>; the string bind returns
\* holds the placeholder verbatim for every input made by fromText, and for an
\* input made by fromObject when x has no character that JSON escapes.
C9_PlaceholderVerbatimUnlessEscaped ==
    /\ attrName # None => attr = Placeholder(Get(attrName))
    /\ (Bound /\ embedded /\ (created = "fromText" \/ NeedsNoEscape(Get(attrName))))
          => Contains(Get(bound), Placeholder(Get(attrName)))

C9_Witness ==
    /\ Bound
    /\ embedded
    /\ created = "fromObject"
    /\ input.type = "object"
    /\ attrName = Some(<<"x", "-">>)
    /\ Contains(Get(bound), <<"<", "a", "w", "s", ".", "s", "c", "h", "e", "d", "u",
                              "l", "e", "r", ".", "x", "-", ">">>)

====
